---- MODULE Spec2Model ----
(***************************************************************************)
(* Sportsbook EV Analyzer API (services/api/app/main.py): the read-only    *)
(* query layer over the 'odds' collection.  Three handlers are modelled:   *)
(* get_odds (List odds), get_upcoming_games (List games) and the health    *)
(* checks.  Time is counted in whole hours.  Optional values are tuples of *)
(* length at most one (<<>> is Python's None); a store timestamp is        *)
(* <<"ts", t>> and its isoformat() text is <<"iso", t>>.                   *)
(***************************************************************************)
EXTENDS Integers, Sequences, FiniteSets, TLC

VARIABLES odds, gateway, now, req

vars == <<odds, gateway, now, req>>

\* ---------------------------------------------------------------- bounds
MaxDocs == 2
MaxNow == 1

\* ------------------------------------------------------ program constants
HoursMin == 1
HoursMax == 168
LimitMax == 500
Overscan == 5
GamesCap == 500

None == <<>>

Some(x) == <<x>>

Min(a, b) == IF a < b THEN a ELSE b

\* Python truthiness of an Optional[str]: None and "" are both falsy.
Truthy(s) == s # None /\ s[1] # ""

\* ------------------------------------------------------- input universes
\* Scheduled start of each game, in hours.
CommenceOf(g) == CASE g = "G1" -> 2 [] g = "G2" -> 1 [] g = "G3" -> 169 [] OTHER -> 2

\* The spread/price quoted in document i: (tenths of a point, American odds).
SpreadOf(i) == -25 - 5 * i

PriceOf(i) == -100 - 5 * i

\* One OddsRecord as doc.to_dict() returns it, with the document id beside it.
Document(i, g, b, s, ev) ==
    [ id |-> i, game_id |-> g, home_team |-> g \o "-home", away_team |-> g \o "-away",
      commence_time |-> <<"ts", CommenceOf(g)>>, bookmaker |-> b, team |-> s,
      point_spread |-> SpreadOf(i), odds |-> PriceOf(i), ev_percentage |-> ev,
      last_update |-> <<"ts", 0>>,
      ingested_at |-> IF i % 2 = 0 THEN None ELSE <<"iso", 0>> ]

\* What a line can look like next to the request A / Home / min_ev 5: it
\* matches all three filters, or misses one of them, or has no EV computed.
Profiles ==
    { <<"A", "Home", Some(7)>>, <<"B", "Home", Some(7)>>, <<"A", "Away", Some(7)>>,
      <<"A", "Home", Some(3)>>, <<"A", "Home", None>> }

\* Any profile for the two games that start soon, one line for the game a week away.
VariedChoices(i) ==
    { Document(i, g, p[1], p[2], p[3]) : g \in {"G1", "G2"}, p \in Profiles }
      \cup { Document(i, "G3", "A", "Home", Some(7)) }

\* A long run of look-alike lines for two games that start at the same hour.
PlainChoices(i) == { Document(i, "G1", "A", "Home", Some(7)), Document(i, "G4", "B", "Away", Some(7)) }

\* Two games an hour apart, one bookmaker each.
PairChoices(i) == { Document(i, "G1", "A", "Home", Some(7)), Document(i, "G2", "B", "Home", Some(7)) }

DocChoices(family, i) ==
    CASE family = "varied" -> VariedChoices(i)
      [] family = "plain" -> PlainChoices(i)
      [] OTHER -> PairChoices(i)

\* Every collection of k documents with ids 1..k, document i drawn from its family.
RECURSIVE Collections(_, _)
Collections(k, family) ==
    IF k = 0 THEN { {} }
    ELSE { c \cup {d} : c \in Collections(k - 1, family), d \in DocChoices(family, k) }

\* Small collections of varied lines, and collections one longer than the
\* overscan factor, so that the store-side cap of a limit-1 request bites.
Stores ==
    UNION { Collections(k, "varied") : k \in 0..MaxDocs }
      \cup Collections(Overscan + 1, "plain")

\* The store behind the client: whether range queries succeed at all (a
\* missing composite index makes every one fail), and what a cap of zero yields.
Gateways == { [up |-> TRUE, zeroCap |-> "empty"], [up |-> TRUE, zeroCap |-> "unlimited"],
              [up |-> FALSE, zeroCap |-> "empty"] }

\* ------------------------------------------------ Document Store Gateway
\* where('commence_time', '>', now).where('commence_time', '<=', max_time)
InWindow(d, t0, t1) == d.commence_time[2] > t0 /\ d.commence_time[2] <= t1

\* order_by('commence_time', ASCENDING); equal keys come in document-id order.
Before(a, b) ==
    \/ a.commence_time[2] < b.commence_time[2]
    \/ a.commence_time[2] = b.commence_time[2] /\ a.id < b.id

RECURSIVE OrderBy(_)
OrderBy(S) ==
    IF S = {} THEN <<>>
    ELSE LET first == CHOOSE x \in S : \A y \in S \ {x} : Before(x, y)
         IN  <<first>> \o OrderBy(S \ {first})

\* limit(cap).  The store rejects a negative cap; what a cap of zero yields is
\* not fixed by anything in this layer: no row, or the cap is taken as absent.
Capped(rows, cap) ==
    IF cap >= 1 THEN SubSeq(rows, 1, Min(cap, Len(rows)))
    ELSE IF gateway.zeroCap = "unlimited" THEN rows ELSE <<>>

QueryFails(cap) == ~gateway.up \/ cap < 0

Cause(cap) == IF ~gateway.up THEN "index required" ELSE "bad limit"

\* Variant: the lower bound is read from the clock when the query runs.
Stream_clock(t0, t1, cap) == Capped(OrderBy({ d \in odds : InWindow(d, now, t1) }), cap)

Stream(t0, t1, cap) == Capped(OrderBy({ d \in odds : InWindow(d, t0, t1) }), cap)

\* ----------------------------------------------------------- conversions
\* val.isoformat() for a timestamp; any other value is left as it is.
ToIso(val) == IF val # None /\ val[1] = "ts" THEN <<"iso", val[2]>> ELSE val

\* ------------------------------------------------------ request validation
ValidHours(h) == h >= HoursMin /\ h <= HoursMax

\* Variant: lt=500 instead of le=500.
ValidLimit_lt(l) == l < LimitMax

ValidLimit(l) == l <= LimitMax

Valid(q) ==
    CASE q.op = "odds" -> ValidHours(q.hours_ahead) /\ ValidLimit(q.limit)
      [] q.op = "games" -> ValidHours(q.hours_ahead)
      [] OTHER -> TRUE

\* --------------------------------------------------------------- get_odds
PassesBookmaker(data, bookmaker) == ~(Truthy(bookmaker) /\ data.bookmaker # bookmaker[1])

PassesTeam(data, team) == ~(Truthy(team) /\ data.team # team[1])

\* Variant: a line with no EV computed is let through.
PassesEv_absent(data, min_ev) ==
    ~(min_ev # None /\ data.ev_percentage # None /\ data.ev_percentage[1] < min_ev[1])

PassesEv(data, min_ev) ==
    ~(min_ev # None /\ (data.ev_percentage = None \/ data.ev_percentage[1] < min_ev[1]))

Passes(data, q) ==
    PassesBookmaker(data, q.bookmaker) /\ PassesTeam(data, q.team) /\ PassesEv(data, q.min_ev)

\* data['id'] = doc.id and the three timestamp fields as ISO text.
Shaped(data) ==
    [data EXCEPT !.commence_time = ToIso(@), !.last_update = ToIso(@),
                 !.ingested_at = ToIso(@)]

\* Variant: results.insert(0, data)
Collect_front(results, data) == <<Shaped(data)>> \o results

\* Variant: results is one module-level list (kept here in slot 1).
Collect_shared(results, data) == Append(req[1].results, Shaped(data))

Collect(results, data) == Append(results, Shaped(data))

ReachedLimit(results, limit) == Len(results) >= limit

\* --------------------------------------------------- get_upcoming_games
\* Variant: only the game added last is recognised.
HasGame_last(games, g) == games # <<>> /\ games[Len(games)].game_id = g

HasGame(games, g) == \E i \in 1..Len(games) : games[i].game_id = g

GameAt(games, g) == CHOOSE i \in 1..Len(games) : games[i].game_id = g

HasBook(books, b) == \E j \in 1..Len(books) : books[j].bookmaker = b

BookAt(books, b) == CHOOSE j \in 1..Len(books) : books[j].bookmaker = b

NewGame(data) ==
    [ game_id |-> data.game_id, home_team |-> data.home_team, away_team |-> data.away_team,
      commence_time |-> ToIso(data.commence_time), bookmakers |-> <<>> ]

Entry(data) == [ team |-> data.team, point_spread |-> data.point_spread, odds |-> data.odds ]

\* Variant: the entry is put in front of the bookmaker's list.
AddRow_front(games, data) ==
    LET g1 == IF HasGame(games, data.game_id) THEN games ELSE Append(games, NewGame(data))
        i  == GameAt(g1, data.game_id)
        b0 == g1[i].bookmakers
        b1 == IF HasBook(b0, data.bookmaker) THEN b0
              ELSE Append(b0, [bookmaker |-> data.bookmaker, entries |-> <<>>])
        j  == BookAt(b1, data.bookmaker)
    IN  [g1 EXCEPT ![i].bookmakers = [b1 EXCEPT ![j].entries = <<Entry(data)>> \o @]]

\* One pass of the loop body; games_dict and each 'bookmakers' dict keep
\* insertion order, so both are sequences here.
AddRow(games, data) ==
    LET g1 == IF HasGame(games, data.game_id) THEN games ELSE Append(games, NewGame(data))
        i  == GameAt(g1, data.game_id)
        b0 == g1[i].bookmakers
        b1 == IF HasBook(b0, data.bookmaker) THEN b0
              ELSE Append(b0, [bookmaker |-> data.bookmaker, entries |-> <<>>])
        j  == BookAt(b1, data.bookmaker)
    IN  [g1 EXCEPT ![i].bookmakers = [b1 EXCEPT ![j].entries = Append(@, Entry(data))]]

\* ------------------------------------------------------------- requests
BookmakerArgs == {None, Some(""), Some("A")}

TeamArgs == {None, Some(""), Some("Home")}

MinEvArgs == {None, Some(5)}

HoursArgs == {0, 1, 168, 169}

LimitArgs == {-1, 0, 1, 2, 500, 501}

\* Every filter combination at the widest window and largest limit, one filter
\* with limit 1, and every hours_ahead / limit combination without filters.
OddsRequests ==
    [ op : {"odds"}, bookmaker : BookmakerArgs, team : TeamArgs, min_ev : MinEvArgs,
      hours_ahead : {HoursMax}, limit : {LimitMax} ]
      \cup [ op : {"odds"}, bookmaker : {Some("A")}, team : {None}, min_ev : {None},
             hours_ahead : {HoursMax}, limit : {1} ]
      \cup [ op : {"odds"}, bookmaker : {None}, team : {None}, min_ev : {None},
             hours_ahead : HoursArgs, limit : LimitArgs ]

Plain(op, h) ==
    [ op |-> op, bookmaker |-> None, team |-> None, min_ev |-> None, hours_ahead |-> h,
      limit |-> 100 ]

GamesRequests == { Plain("games", h) : h \in HoursArgs }

HealthRequests == { Plain("root", 48), Plain("health", 48) }

Requests == OddsRequests \cup GamesRequests \cup HealthRequests

\* ------------------------------------------------- one request, step by step
\* A request in flight: its parameters, the handler's locals (now, max_time,
\* the rows still to be iterated, results, games_dict), the response, and two
\* records of what happened: the rows the store returned and the number of
\* range queries issued.
Idle ==
    [ pc |-> "idle", q |-> Plain("none", 48), now |-> 0, max_time |-> 0, docs |-> <<>>,
      results |-> <<>>, games |-> <<>>, status |-> 0, body |-> <<>>, fetched |-> <<>>,
      queries |-> 0 ]

Replied(me, status, body) == [me EXCEPT !.pc = "done", !.status = status, !.body = body]

\* The framework validates the query parameters; a valid request enters its
\* handler, which reads the clock and builds the range query.
Received(q, clock) ==
    LET me == [Idle EXCEPT !.q = q, !.now = clock]
    IN  IF ~Valid(q) THEN Replied(me, 422, <<"validation error">>)
        ELSE IF q.op = "root" THEN Replied(me, 200, <<"healthy", <<"iso", clock>>>>)
        ELSE IF q.op = "health" THEN Replied(me, 200, <<"ok", <<"iso", clock>>>>)
        ELSE [me EXCEPT !.pc = q.op \o "_query", !.max_time = clock + q.hours_ahead]

\* docs = list(query.stream()) inside try/except, then results = []
OddsStreamed(me) ==
    LET cap == me.q.limit * Overscan
    IN  IF QueryFails(cap)
        THEN [Replied(me, 500, <<"Query failed", Cause(cap)>>) EXCEPT !.queries = @ + 1]
        ELSE LET rows == Stream(me.now, me.max_time, cap)
             IN  [me EXCEPT !.pc = "odds_loop", !.queries = @ + 1, !.docs = rows,
                            !.fetched = rows, !.results = <<>>]

\* One iteration of 'for doc in docs'; break leaves nothing to iterate.
OddsStepped(me) ==
    LET data == Head(me.docs)
    IN  IF ~Passes(data, me.q) THEN [me EXCEPT !.docs = Tail(@)]
        ELSE LET res == Collect(me.results, data)
             IN  [me EXCEPT !.results = res,
                            !.docs = IF ReachedLimit(res, me.q.limit) THEN <<>> ELSE Tail(@)]

\* return results
OddsReturned(me) == Replied(me, 200, me.results)

\* docs = query.stream() is lazy and outside any try: a failure surfaces from
\* the loop as an unhandled exception, which the framework answers itself.
GamesStreamed(me) ==
    IF QueryFails(GamesCap)
    THEN [Replied(me, 500, <<"Internal Server Error">>) EXCEPT !.queries = @ + 1]
    ELSE LET rows == Stream(me.now, me.max_time, GamesCap)
         IN  [me EXCEPT !.pc = "games_loop", !.queries = @ + 1, !.docs = rows,
                        !.fetched = rows, !.games = <<>>]

GamesStepped(me) == [me EXCEPT !.games = AddRow(@, Head(me.docs)), !.docs = Tail(@)]

\* return list(games_dict.values())
GamesReturned(me) == Replied(me, 200, me.games)

\* The next step of a request that is not done.
Stepped(me) ==
    CASE me.pc = "odds_query" -> OddsStreamed(me)
      [] me.pc = "odds_loop" -> IF me.docs # <<>> THEN OddsStepped(me) ELSE OddsReturned(me)
      [] me.pc = "games_query" -> GamesStreamed(me)
      [] me.pc = "games_loop" -> IF me.docs # <<>> THEN GamesStepped(me) ELSE GamesReturned(me)
      [] OTHER -> me

\* The request run from start to end with nothing else happening.
RECURSIVE Finished(_)
Finished(me) == IF me.pc = "done" THEN me ELSE Finished(Stepped(me))

Alone(q, clock) == Finished(Received(q, clock))

\* ----------------------------------------------------------------- actions
Free(r) == req[r].pc = "idle"

Receive(r, q) ==
    /\ Free(r)
    /\ req' = [req EXCEPT ![r] = Received(q, now)]
    /\ UNCHANGED <<odds, gateway, now>>

OddsStream(r) ==
    /\ req[r].pc = "odds_query"
    /\ req' = [req EXCEPT ![r] = OddsStreamed(@)]
    /\ UNCHANGED <<odds, gateway, now>>

OddsStep(r) ==
    /\ req[r].pc = "odds_loop"
    /\ req[r].docs # <<>>
    /\ req' = [req EXCEPT ![r] = OddsStepped(@)]
    /\ UNCHANGED <<odds, gateway, now>>

OddsReturn(r) ==
    /\ req[r].pc = "odds_loop"
    /\ req[r].docs = <<>>
    /\ req' = [req EXCEPT ![r] = OddsReturned(@)]
    /\ UNCHANGED <<odds, gateway, now>>

GamesStream(r) ==
    /\ req[r].pc = "games_query"
    /\ req' = [req EXCEPT ![r] = GamesStreamed(@)]
    /\ UNCHANGED <<odds, gateway, now>>

GamesStep(r) ==
    /\ req[r].pc = "games_loop"
    /\ req[r].docs # <<>>
    /\ req' = [req EXCEPT ![r] = GamesStepped(@)]
    /\ UNCHANGED <<odds, gateway, now>>

GamesReturn(r) ==
    /\ req[r].pc = "games_loop"
    /\ req[r].docs = <<>>
    /\ req' = [req EXCEPT ![r] = GamesReturned(@)]
    /\ UNCHANGED <<odds, gateway, now>>

\* The response has been sent and the invocation's locals are gone.
Close(r) ==
    /\ req[r].pc = "done"
    /\ req' = [req EXCEPT ![r] = Idle]
    /\ UNCHANGED <<odds, gateway, now>>

\* datetime.utcnow() moves on.
Tick ==
    /\ now < MaxNow
    /\ now' = now + 1
    /\ UNCHANGED <<odds, gateway, req>>

\* ------------------------------------------- one request at a time (Spec)
Init ==
    /\ odds \in Stores
    /\ gateway \in Gateways
    /\ now = 0
    /\ req = [r \in {1} |-> Idle]

Next ==
    \/ \E q \in Requests : Receive(1, q)
    \/ OddsStream(1)
    \/ OddsStep(1)
    \/ OddsReturn(1)
    \/ GamesStream(1)
    \/ GamesStep(1)
    \/ GamesReturn(1)
    \/ Close(1)
    \/ Tick

Spec == Init /\ [][Next]_vars

\* ------------------------------------- overlapping requests (SpecConc)
Slots == {1, 2}

ConcStores == UNION { Collections(k, "pair") : k \in 0..MaxDocs }

ConcGateways == { g \in Gateways : g.zeroCap = "empty" }

ConcRequests ==
    [ op : {"odds"}, bookmaker : {None, Some("A")}, team : {None}, min_ev : {None},
      hours_ahead : {1, HoursMax}, limit : {1, LimitMax} ]
      \cup { Plain("games", 1), Plain("games", HoursMax), Plain("health", 48) }

InitConc ==
    /\ odds \in ConcStores
    /\ gateway \in ConcGateways
    /\ now = 0
    /\ req = [r \in Slots |-> Idle]

NextConc ==
    \/ \E r \in Slots, q \in ConcRequests : Receive(r, q)
    \/ \E r \in Slots : OddsStream(r)
    \/ \E r \in Slots : OddsStep(r)
    \/ \E r \in Slots : OddsReturn(r)
    \/ \E r \in Slots : GamesStream(r)
    \/ \E r \in Slots : GamesStep(r)
    \/ \E r \in Slots : GamesReturn(r)
    \/ \E r \in Slots : Close(r)
    \/ Tick

SpecConc == InitConc /\ [][NextConc]_vars

\* ================================================================ claims
IsOdds(me) == me.pc = "done" /\ me.q.op = "odds" /\ me.status = 200

IsGames(me) == me.pc = "done" /\ me.q.op = "games" /\ me.status = 200

Given(s) == s # None /\ s # <<"">>

\* x is inside the request's window and matches the filters that count as supplied.
Fits(x, me, byBookmaker, byTeam) ==
    /\ me.now < x.commence_time[2]
    /\ x.commence_time[2] <= me.now + me.q.hours_ahead
    /\ byBookmaker => x.bookmaker = me.q.bookmaker[1]
    /\ byTeam => x.team = me.q.team[1]
    /\ me.q.min_ev # None => x.ev_percentage # None /\ x.ev_percentage[1] >= me.q.min_ev[1]

\* C1 as stated: every record List odds returns starts within
\* (now, now + hours_ahead] and matches each filter the request supplies,
\* an empty bookmaker or team string included.
C1_EverySuppliedFilter ==
    \A r \in DOMAIN req :
        IsOdds(req[r]) =>
            \A i \in 1..Len(req[r].body) :
                Fits(req[r].body[i], req[r], req[r].q.bookmaker # None, req[r].q.team # None)

\* C1 as amended: every record List odds returns starts within
\* (now, now + hours_ahead], equals the bookmaker and the team when these are
\* supplied as non-empty strings, and has an EV that is present and at least
\* min_ev when min_ev is supplied.
C1_EveryNonEmptyFilter ==
    \A r \in DOMAIN req :
        IsOdds(req[r]) =>
            \A i \in 1..Len(req[r].body) :
                Fits(req[r].body[i], req[r], Given(req[r].q.bookmaker), Given(req[r].q.team))

\* A request with all three filters returned a record and dropped another one.
C1_Witness ==
    /\ IsOdds(req[1])
    /\ req[1].q.bookmaker = Some("A") /\ req[1].q.team = Some("Home")
    /\ req[1].q.min_ev = Some(5) /\ req[1].q.limit = LimitMax
    /\ Len(req[1].body) = 1 /\ Len(req[1].fetched) = 2

\* C2: the list List odds returns is never longer than the requested limit,
\* for any integer limit <= 500 and any rows the store returns.
C2_LengthWithinLimit ==
    \A r \in DOMAIN req : IsOdds(req[r]) => Len(req[r].body) <= req[r].q.limit

\* C3: a List odds / List games request with hours_ahead outside [1,168], or a
\* List odds request with limit > 500, ends in a validation error with no store
\* query issued and nothing retrieved; any other request is not rejected and
\* issues its one store query.
C3_RejectedBeforeStore ==
    \A r \in DOMAIN req :
        LET me == req[r]
            bad == \/ me.q.hours_ahead < 1
                   \/ me.q.hours_ahead > 168
                   \/ me.q.op = "odds" /\ me.q.limit > 500
        IN  me.q.op \in {"odds", "games"} =>
              /\ bad => /\ me.pc = "done" /\ me.status = 422 /\ me.queries = 0
                        /\ me.fetched = <<>> /\ me.body = <<"validation error">>
              /\ ~bad => /\ me.status # 422
                         /\ me.pc = "done" => me.queries = 1

\* A List odds request with limit 501 was rejected without a query.
C3_Witness ==
    /\ req[1].pc = "done" /\ req[1].q.op = "odds"
    /\ req[1].q.limit = 501 /\ req[1].q.hours_ahead = 168
    /\ req[1].status = 422 /\ req[1].queries = 0

\* C4: a List odds or List games request whose store query failed ends, after
\* that one query, in a 500 response whose body carries the cause text.
C4_FailureCarriesCause ==
    \A r \in DOMAIN req :
        LET me == req[r]
        IN  me.pc = "done" /\ me.status = 500 =>
              /\ me.queries = 1
              /\ me.fetched = <<>>
              /\ me.body[Len(me.body)] \in {"index required", "bad limit"}

GameIds(me) == [k \in 1..Len(me.body) |-> me.body[k].game_id]

FirstRow(f, g) == CHOOSE i \in 1..Len(f) : f[i].game_id = g /\ \A j \in 1..(i - 1) : f[j].game_id # g

\* C5: List games returns one GameView per game id among the rows retrieved
\* from (now, now + hours_ahead], none twice and none for any other game id,
\* in the order in which the game ids were first retrieved.
C5_OneViewPerGame ==
    \A r \in DOMAIN req :
        LET me == req[r]
            f == me.fetched
            ids == GameIds(me)
            inWindow == { d \in odds : me.now < d.commence_time[2]
                                        /\ d.commence_time[2] <= me.now + me.q.hours_ahead }
        IN  IsGames(me) =>
              /\ Cardinality(inWindow) <= 500 => { f[i] : i \in 1..Len(f) } = inWindow
              /\ \A k, l \in 1..Len(ids) : k # l => ids[k] # ids[l]
              /\ { ids[k] : k \in 1..Len(ids) } = { f[i].game_id : i \in 1..Len(f) }
              /\ \A k, l \in 1..Len(ids) : k < l => FirstRow(f, ids[k]) < FirstRow(f, ids[l])

\* Two games whose rows arrived interleaved were folded into two GameViews.
C5_Witness ==
    /\ IsGames(req[1])
    /\ Len(req[1].body) = 2 /\ Len(req[1].fetched) > 3
    /\ req[1].fetched[1].game_id = "G4" /\ req[1].fetched[2].game_id = "G1"
    /\ req[1].fetched[3].game_id = "G4"

\* C6: in every GameView the bookmaker keys are exactly the distinct bookmakers
\* of the retrieved rows of that game, and each bookmaker's list holds the
\* {team, point_spread, odds} of its rows in arrival order.
C6_BookmakersInArrivalOrder ==
    \A r \in DOMAIN req :
        IsGames(req[r]) =>
            \A k \in 1..Len(req[r].body) :
                LET gv == req[r].body[k]
                    OfGame(x) == x.game_id = gv.game_id
                    rows == SelectSeq(req[r].fetched, OfGame)
                    books == gv.bookmakers
                IN  /\ \A a, b \in 1..Len(books) : a # b => books[a].bookmaker # books[b].bookmaker
                    /\ Len(books) = Cardinality({ rows[i].bookmaker : i \in 1..Len(rows) })
                    /\ \A j \in 1..Len(books) :
                         LET OfBook(x) == x.bookmaker = books[j].bookmaker
                             mine == SelectSeq(rows, OfBook)
                         IN  books[j].entries =
                               [ i \in 1..Len(mine) |->
                                   [ team |-> mine[i].team, point_spread |-> mine[i].point_spread,
                                     odds |-> mine[i].odds ] ]

\* A bookmaker's list received several entries.
C6_Witness ==
    /\ IsGames(req[1])
    /\ \E k \in 1..Len(req[1].body) :
         \E j \in 1..Len(req[1].body[k].bookmakers) :
            Len(req[1].body[k].bookmakers[j].entries) >= 2

\* C7: the list List odds returns is in non-decreasing commence_time order.
C7_SortedByCommenceTime ==
    \A r \in DOMAIN req :
        IsOdds(req[r]) =>
            \A i, j \in 1..Len(req[r].body) :
                i < j => /\ req[r].body[i].commence_time[1] = "iso"
                         /\ req[r].body[i].commence_time[2] <= req[r].body[j].commence_time[2]

\* Two records were returned, the later document first because it starts sooner.
C7_Witness ==
    /\ IsOdds(req[1])
    /\ Len(req[1].body) = 2
    /\ req[1].body[1].id > req[1].body[2].id
    /\ req[1].body[1].commence_time[2] < req[1].body[2].commence_time[2]

\* C8: two issues of the same request that read the same `now` get the same
\* response.
C8_SameRequestSameResponse ==
    \A r1, r2 \in DOMAIN req :
        /\ req[r1].pc = "done" /\ req[r2].pc = "done"
        /\ req[r1].q = req[r2].q /\ req[r1].now = req[r2].now
        => req[r1].status = req[r2].status /\ req[r1].body = req[r2].body

\* The same List odds request was answered twice, after the clock had moved on,
\* with a non-empty list.
C8_Witness ==
    /\ req[1].pc = "done" /\ req[2].pc = "done"
    /\ req[1].q = req[2].q /\ req[1].q.op = "odds"
    /\ req[1].now = 0 /\ req[2].now = 0 /\ now = 1
    /\ req[1].body # <<>> /\ req[1].status = 200

Prefix(s, n) == IF n <= 0 THEN <<>> ELSE SubSeq(s, 1, Min(n, Len(s)))

\* C9: List odds returns exactly the first min(limit, m) of the m records that
\* pass the filters among the first limit x 5 retrieved rows, in retrieval order.
C9_FirstMatchesUpToLimit ==
    \A r \in DOMAIN req :
        LET me == req[r]
            Wanted(x) == Passes(x, me.q)
            matching == SelectSeq(Prefix(me.fetched, me.q.limit * 5), Wanted)
            expected == Prefix(matching, me.q.limit)
        IN  IsOdds(me) =>
              /\ Len(me.body) = Len(expected)
              /\ \A i \in 1..Len(expected) : me.body[i].id = expected[i].id

\* C10: whatever other requests are in flight, a finished request's response is
\* the one it produces when run alone at the `now` it read.
C10_AsIfAlone ==
    \A r \in DOMAIN req :
        LET me == req[r]
        IN  me.pc = "done" =>
              /\ me.status = Alone(me.q, me.now).status
              /\ me.body = Alone(me.q, me.now).body

\* A List odds request finished with a non-empty list while a List games
\* request in the other slot was in the middle of its loop.
C10_Witness ==
    /\ req[2].pc = "done" /\ req[2].q.op = "odds" /\ req[2].body # <<>>
    /\ req[1].pc = "games_loop" /\ req[1].games # <<>> /\ req[1].docs # <<>>

====
